---- MODULE Spec2Model ----
(***************************************************************************)
(* binfmt core (src/lib.rs): the Formatter's wire encoders and the global  *)
(* logger's acquire/release handshake.                                     *)
(*                                                                         *)
(* Machine integers wider than 31 bits are kept as little-endian sequences *)
(* of 16-bit limbs (u32: 2 limbs, u64: 4 limbs); narrower ones are plain   *)
(* integers.  A string is the sequence of its Unicode scalar values.       *)
(***************************************************************************)
EXTENDS Integers, Sequences, FiniteSets, TLC

\* ------------------------------------------------------------------ bounds
NumCtx == 2
MaxStmts == 3
MaxStrLen == 2

\* ------------------------------------------------------- program constants
\* `Str.address` is a 14-bit address.
AddrBits == 14
\* `let mut buf: [u8; 10]` in Formatter::leb64.
LebBufLen == 10

\* ------------------------------------------------------- limb arithmetic
Limb == 2 ^ 16

Pow2(n) == 2 ^ n

\* the concatenation of a sequence of sequences (by halves)
RECURSIVE Flatten(_)
Flatten(ss) ==
    IF ss = <<>> THEN <<>>
    ELSE IF Len(ss) = 1 THEN ss[1]
    ELSE LET h == Len(ss) \div 2
         IN  Flatten(SubSeq(ss, 1, h)) \o Flatten(SubSeq(ss, h + 1, Len(ss)))

\* a natural below 2^31 as an n-limb unsigned
Wide(v, n) == [i \in 1..n |-> IF i = 1 THEN v % Limb ELSE IF i = 2 THEN v \div Limb ELSE 0]

IsZero(x) == \A i \in 1..Len(x) : x[i] = 0

\* x >> k, for 0 < k < 16
Shr(x, k) ==
    [i \in 1..Len(x) |->
        (x[i] \div Pow2(k))
        + (IF i < Len(x) THEN (x[i + 1] % Pow2(k)) * Pow2(16 - k) ELSE 0)]

\* `x as u8`
AsU8(v) == v % 256

\* `b | (1 << 7)` on a u8
OrBit7(b) == IF b >= 128 THEN b ELSE b + 128

\* ------------------------------------------------------------ conversions
\* (most significant byte first)
to_be_bytes(v, n) == [k \in 1..n |-> (v \div (256 ^ (n - k))) % 256]

\* iN::to_le_bytes / uN::to_le_bytes for a value held as an integer: two's
\* complement, least significant byte first.
to_le_bytes(v, n) == [k \in 1..n |-> (v \div (256 ^ (k - 1))) % 256]

\* u32::to_le_bytes for a value held in limbs
wide_to_le_bytes(x) == [k \in 1..(2 * Len(x)) |-> to_le_bytes(x[(k + 1) \div 2], 2)[2 - (k % 2)]]

\* UTF-8 encoding of one Unicode scalar value
Utf8(cp) ==
    IF cp < 128 THEN <<cp>>
    ELSE IF cp < 2048 THEN <<192 + (cp \div 64), 128 + (cp % 64)>>
    ELSE IF cp < 65536 THEN
        <<224 + (cp \div 4096), 128 + ((cp \div 64) % 64), 128 + (cp % 64)>>
    ELSE
        <<240 + (cp \div 262144), 128 + ((cp \div 4096) % 64),
          128 + ((cp \div 64) % 64), 128 + (cp % 64)>>

\* str::as_bytes
as_bytes(s) == Flatten([i \in 1..Len(s) |-> Utf8(s[i])])

\* str::len: the length in bytes
str_len(s) == Len(as_bytes(s))

\* ------------------------------------------------------- leb (leb.rs)
\* A fresh `MaybeUninit::uninit().assume_init()` buffer: every byte is
\* poison (-1) until it is written.
Uninit == [k \in 1..LebBufLen |-> -1]

\* leb::leb64(x, &mut buf): writes the varint of x to the front of buf and
\* returns the buffer and the number of bytes written.
RECURSIVE leb_loop(_, _, _)
leb_loop(x, buf, i) ==
    LET rest == Shr(x, 7)
        byte == IF IsZero(rest) THEN x[1] % 128 ELSE (x[1] % 128) + 128
        out  == [buf EXCEPT ![i + 1] = byte]
    IN  IF IsZero(rest) THEN [buf |-> out, n |-> i + 1] ELSE leb_loop(rest, out, i + 1)

leb_leb64(x, buf) == leb_loop(x, buf, 0)

\* ------------------------------------------------------------- Formatter
\* (a destination that puts the new bytes first)
write_prepend(self, bs) == bs \o self

\* Formatter::write: hands the bytes to the destination, which appends them
write(self, bs) == self \o bs

\* (the whole scratch buffer instead of its first i bytes)
leb64_whole_buf(self, x) == write(self, leb_leb64(x, Uninit).buf)

\* Formatter::leb64
leb64(self, x) ==
    LET r == leb_leb64(x, Uninit)
    IN  write(self, SubSeq(r.buf, 1, r.n))

i8(self, b) == write(self, to_le_bytes(b, 1))

i16(self, b) == write(self, to_le_bytes(b, 2))

i32(self, b) == write(self, to_le_bytes(b, 4))

\* (the address without the cast to u8)
prim_untruncated(self, address) == write(self, <<address>>)

\* Formatter::prim: `s.address as u8`
prim(self, address) == write(self, <<AsU8(address)>>)

u8(self, b) == write(self, <<b>>)

u16(self, b) == write(self, to_le_bytes(b, 2))

\* Formatter::u24: `&b.to_le_bytes()[..3]` of a u32
u24(self, b) == write(self, SubSeq(wide_to_le_bytes(b), 1, 3))

u32(self, b) == write(self, wide_to_le_bytes(b))

\* (the length in characters instead of bytes)
str_char_count(self, s) == write(leb64(self, Wide(Len(s), 4)), as_bytes(s))

\* Formatter::str
str(self, s) == write(leb64(self, Wide(str_len(s), 4)), as_bytes(s))

\* (no continuation bit on the first of two bytes)
istr_no_continuation(self, address) ==
    IF address < 128
    THEN write(self, <<AsU8(address)>>)
    ELSE write(self, <<AsU8(address) % 128, AsU8(address \div 128)>>)

\* Formatter::istr
istr(self, address) ==
    IF address < 128
    THEN write(self, <<AsU8(address)>>)
    ELSE write(self, <<OrBit7(AsU8(address)), AsU8(address \div 128)>>)

\* One primitive writer call, by the name of the writer.
Prim(self, call) ==
    CASE call.op = "leb64" -> leb64(self, call.val)
      [] call.op = "istr"  -> istr(self, call.val)
      [] call.op = "prim"  -> prim(self, call.val)
      [] call.op = "u8"    -> u8(self, call.val)
      [] call.op = "u16"   -> u16(self, call.val)
      [] call.op = "i8"    -> i8(self, call.val)
      [] call.op = "i16"   -> i16(self, call.val)

\* Format::format of a record value: its fields in declaration order, each
\* through its own primitive writer.
RECURSIVE format(_, _)
format(f, self) == IF f = <<>> THEN self ELSE format(Tail(f), Prim(self, Head(f)))

\* Formatter::fmt
fmt(self, f) == format(f, self)

\* NonNull<dyn Write>: the one sink the global logger hands out, and a
\* pointer that is not it.
SinkPtr == "sink"

Dangling == "dangling"

\* (a from_raw that does not keep the pointer it is given)
from_raw_dangling(writer) == [writer |-> Dangling]

\* from_raw / into_raw (the build that has a `writer` field)
from_raw(writer) == [writer |-> writer]

\* (an into_raw that does not give back the pointer it holds)
into_raw_dangling(self) == Dangling

into_raw(self) == self.writer

\* Formatter::write on the build that has a `writer` field:
\* `self.writer.as_mut().write(bytes)`.  dst is the sink before the call and
\* out the sink with the call's bytes written; through a writer that is not
\* the sink the bytes may land or not.
write_through(self, dst, out) == IF self.writer = SinkPtr THEN {out} ELSE {dst, out}

\* ---------------------------------------------------------------- Logger
\* (an acquire that hands the sink out again while it is held)
acquire_always(lg) == [logger |-> "Acquired", ret |-> <<SinkPtr>>]

\* (a failed acquire that leaves the logger Idle)
acquire_resets(lg) ==
    IF lg = "Idle"
    THEN [logger |-> "Acquired", ret |-> <<SinkPtr>>]
    ELSE [logger |-> "Idle", ret |-> <<>>]

\* Logger::acquire on the logger's state: the new state and the
\* Option<NonNull<dyn Write>> returned (<<>> is None).
acquire(lg) ==
    IF lg = "Idle"
    THEN [logger |-> "Acquired", ret |-> <<SinkPtr>>]
    ELSE [logger |-> lg, ret |-> <<>>]

\* Logger::release(writer): the states it may leave the logger in.  A
\* writer that acquire did not return breaks the safety contract: anything
\* may follow.
release(lg, writer) ==
    IF writer = SinkPtr THEN {"Idle"} ELSE {"Idle", "Acquired"}

\* ----------------------------------------------------------------- state
VARIABLES
    logger,     \* the global logger: "Idle" or "Acquired"
    fmtr,       \* per context: the Formatter it holds, as an Option
    pc,         \* per context: where its log statement stands
    site,       \* per context: the log statement it is executing
    calls,      \* per context: the writer calls of its session so far
    nested,     \* per context: what an acquire from inside its session got
    stmts,      \* log statements started
    committed,  \* the sessions released so far, each as its list of calls
    sink,       \* the bytes the global sink has received
    input,      \* harness: the writer under test and its argument
    bytes,      \* harness: Formatter.bytes of the in-memory Formatter
    called      \* harness: whether the writer has been called

logVars == <<logger, fmtr, pc, site, calls, nested, stmts, committed, sink>>

encVars == <<input, bytes, called>>

vars == <<logger, fmtr, pc, site, calls, nested, stmts, committed, sink, input, bytes, called>>

Ctx == 1..NumCtx

\* ---------------------------------------------------------------- inputs
Timestamps == {Wide(42, 4), Wide(200, 4)}

\* The log statements of the program: the interned address of the format
\* string and the arguments, in order.
Sites ==
    { [addr |-> 100, args |-> <<[op |-> "u8", val |-> 7]>>],
      [addr |-> 300, args |-> <<[op |-> "fmt",
                                 val |-> <<[op |-> "u8", val |-> 1],
                                           [op |-> "u16", val |-> 4660]>>]>>],
      [addr |-> 5, args |-> <<>>] }

NoSite == [addr |-> 0, args |-> <<>>]

NoInput == [op |-> "none", val |-> 0]

Addresses == 0..(Pow2(AddrBits) - 1)

I8Vals == -128..127

U8Vals == 0..255

I16Vals == {-32768, -32767, -4660, -257, -256, -255, -129, -128, -1, 0, 1, 127, 128,
            255, 256, 257, 4660, 32767} \cup {257 * k - 32768 : k \in 0..255}

U16Vals == {0, 1, 127, 128, 255, 256, 257, 4660, 32767, 32768, 65535}
           \cup {251 * k : k \in 0..255}

I32Vals == {-2147483647 - 1, -2147483647, 305419896, -305419896, 2147483647}
           \cup {Pow2(k) : k \in 0..30} \cup {Pow2(k) - 1 : k \in 0..30}
           \cup {-Pow2(k) : k \in 0..30} \cup {-Pow2(k) - 1 : k \in 0..30}

\* 2^k and 2^k - 1 as n-limb unsigneds
WidePow2(k, n) == [i \in 1..n |-> IF i = (k \div 16) + 1 THEN Pow2(k % 16) ELSE 0]

WideOnes(k, n) ==
    [i \in 1..n |->
        IF i < (k \div 16) + 1 THEN Limb - 1
        ELSE IF i = (k \div 16) + 1 THEN Pow2(k % 16) - 1 ELSE 0]

U32Vals == {WidePow2(k, 2) : k \in 0..31} \cup {WideOnes(k, 2) : k \in 0..32}
           \cup {<<22136, 4660>>, <<52719, 43981>>}

U64Vals == {WidePow2(k, 4) : k \in 0..63} \cup {WideOnes(k, 4) : k \in 0..64}
           \cup {Wide(42, 4), Wide(300, 4), <<22136, 4660, 52719, 43981>>}

\* 'a', e-acute, the euro sign, an emoji: 1, 2, 3 and 4 bytes of UTF-8
Alphabet == {97, 233, 8364, 128512}

Strs == UNION {[1..n -> Alphabet] : n \in 0..MaxStrLen}
        \cup {[i \in 1..130 |-> 97], [i \in 1..200 |-> 233]}

\* ------------------------------------------------------------------ Init
LogInit ==
    /\ logger = "Idle"
    /\ fmtr = [c \in Ctx |-> <<>>]
    /\ pc = [c \in Ctx |-> "idle"]
    /\ site = [c \in Ctx |-> NoSite]
    /\ calls = [c \in Ctx |-> <<>>]
    /\ nested = [c \in Ctx |-> "none"]
    /\ stmts = 0
    /\ committed = <<>>
    /\ sink = <<>>

Init ==
    /\ LogInit
    /\ input = NoInput
    /\ bytes = <<>>
    /\ called = FALSE

\* Formatter::new() and one argument for one writer
EncInit ==
    /\ LogInit
    /\ bytes = <<>>
    /\ called = FALSE
    /\ \/ input \in [op : {"leb64"}, val : U64Vals]
       \/ input \in [op : {"istr", "prim"}, val : Addresses]
       \/ input \in [op : {"i8"}, val : I8Vals]
       \/ input \in [op : {"i16"}, val : I16Vals]
       \/ input \in [op : {"i32"}, val : I32Vals]
       \/ input \in [op : {"u8"}, val : U8Vals]
       \/ input \in [op : {"u16"}, val : U16Vals]
       \/ input \in [op : {"u24", "u32"}, val : U32Vals]
       \/ input \in [op : {"str"}, val : Strs]

\* ------------------------------------------------- a log statement's steps
\* `if let Some(fmt) = acquire() { ... }` at log statement s: a handle, or
\* the statement is dropped.
LogAcquire(c, s) ==
    /\ pc[c] = "idle"
    /\ stmts < MaxStmts
    /\ stmts' = stmts + 1
    /\ LET r == acquire(logger)
       IN  /\ logger' = r.logger
           /\ IF r.ret # <<>>
              THEN /\ fmtr' = [fmtr EXCEPT ![c] = <<from_raw(r.ret[1])>>]
                   /\ pc' = [pc EXCEPT ![c] = "ts"]
                   /\ site' = [site EXCEPT ![c] = s]
              ELSE /\ pc' = [pc EXCEPT ![c] = "lost"]
                   /\ UNCHANGED <<fmtr, site>>
    /\ UNCHANGED <<calls, nested, committed, sink, encVars>>

\* The dropped statement ends: nothing was written.
LogDropped(c) ==
    /\ pc[c] = "lost"
    /\ pc' = [pc EXCEPT ![c] = "idle"]
    /\ UNCHANGED <<logger, fmtr, site, calls, nested, stmts, committed, sink, encVars>>

\* One writer call of context c's session
SessionCall(c, call, out, next) ==
    /\ fmtr[c] # <<>>
    /\ sink' \in write_through(fmtr[c][1], sink, out)
    /\ calls' = [calls EXCEPT ![c] = Append(@, call)]
    /\ pc' = [pc EXCEPT ![c] = next]
    /\ UNCHANGED <<logger, fmtr, site, nested, stmts, committed, encVars>>

\* fmt.leb64(timestamp())
LogTimestamp(c, t) ==
    /\ pc[c] = "ts"
    /\ SessionCall(c, [op |-> "leb64", val |-> t], leb64(sink, t), "addr")

\* fmt.istr(&format string)
LogIstr(c) ==
    /\ pc[c] = "addr"
    /\ SessionCall(c, [op |-> "istr", val |-> site[c].addr], istr(sink, site[c].addr), "args")

\* The arguments still to write
ArgsLeft(c) == SubSeq(site[c].args, Len(calls[c]) - 1, Len(site[c].args))

\* the next argument, through its primitive writer
LogArg(c) ==
    /\ pc[c] = "args"
    /\ ArgsLeft(c) # <<>>
    /\ Head(ArgsLeft(c)).op # "fmt"
    /\ SessionCall(c, Head(ArgsLeft(c)), Prim(sink, Head(ArgsLeft(c))), "args")

\* the next argument, through Formatter::fmt
LogFmt(c) ==
    /\ pc[c] = "args"
    /\ ArgsLeft(c) # <<>>
    /\ Head(ArgsLeft(c)).op = "fmt"
    /\ SessionCall(c, Head(ArgsLeft(c)), fmt(sink, Head(ArgsLeft(c)).val), "args")

\* A log statement reached from inside the session (the sink's write path,
\* a Format impl): it calls acquire like any other.
LogNested(c) ==
    /\ pc[c] \in {"ts", "addr", "args"}
    /\ nested[c] = "none"
    /\ LET r == acquire(logger)
       IN  /\ logger' = r.logger
           /\ nested' = [nested EXCEPT ![c] = IF r.ret # <<>> THEN "present" ELSE "absent"]
    /\ UNCHANGED <<fmtr, pc, site, calls, stmts, committed, sink, encVars>>

\* release(fmt.into_raw())
LogRelease(c) ==
    /\ pc[c] = "args"
    /\ ArgsLeft(c) = <<>>
    /\ fmtr[c] # <<>>
    /\ logger' \in release(logger, into_raw(fmtr[c][1]))
    /\ fmtr' = [fmtr EXCEPT ![c] = <<>>]
    /\ committed' = Append(committed, calls[c])
    /\ calls' = [calls EXCEPT ![c] = <<>>]
    /\ nested' = [nested EXCEPT ![c] = "none"]
    /\ site' = [site EXCEPT ![c] = NoSite]
    /\ pc' = [pc EXCEPT ![c] = "idle"]
    /\ UNCHANGED <<stmts, sink, encVars>>

\* a step of the session context c holds
SessionStep(c) ==
    \/ \E t \in Timestamps : LogTimestamp(c, t)
    \/ LogIstr(c)
    \/ LogArg(c)
    \/ LogFmt(c)
    \/ LogRelease(c)

Next ==
    \E c \in Ctx :
        \/ \E s \in Sites : LogAcquire(c, s)
        \/ LogDropped(c)
        \/ \E t \in Timestamps : LogTimestamp(c, t)
        \/ LogIstr(c)
        \/ LogArg(c)
        \/ LogFmt(c)
        \/ LogNested(c)
        \/ LogRelease(c)

Spec == Init /\ [][Next]_vars

\* A context that holds the sink is never suspended for good: its session
\* is straight-line code.
FairSpec == Spec /\ \A c \in Ctx : WF_vars(SessionStep(c))

\* --------------------------------------------- one writer, one Formatter
Called(out) ==
    /\ ~called
    /\ called' = TRUE
    /\ bytes' = out
    /\ UNCHANGED <<input, logVars>>

Test_leb64 == input.op = "leb64" /\ Called(leb64(bytes, input.val))

Test_i8 == input.op = "i8" /\ Called(i8(bytes, input.val))

Test_i16 == input.op = "i16" /\ Called(i16(bytes, input.val))

Test_i32 == input.op = "i32" /\ Called(i32(bytes, input.val))

Test_prim == input.op = "prim" /\ Called(prim(bytes, input.val))

Test_u8 == input.op = "u8" /\ Called(u8(bytes, input.val))

Test_u16 == input.op = "u16" /\ Called(u16(bytes, input.val))

Test_u24 == input.op = "u24" /\ Called(u24(bytes, input.val))

Test_u32 == input.op = "u32" /\ Called(u32(bytes, input.val))

Test_str == input.op = "str" /\ Called(str(bytes, input.val))

Test_istr == input.op = "istr" /\ Called(istr(bytes, input.val))

EncNext ==
    \/ Test_leb64
    \/ Test_i8
    \/ Test_i16
    \/ Test_i32
    \/ Test_prim
    \/ Test_u8
    \/ Test_u16
    \/ Test_u24
    \/ Test_u32
    \/ Test_str
    \/ Test_istr

EncSpec == EncInit /\ [][EncNext]_vars

\* ================================================================ claims
\* ---------------------------------------------------- what a decoder reads
IsByte(b) == b \in 0..255

\* A varint: every byte but the last has its top bit set, the last has not.
LebWellFormed(bs) ==
    /\ Len(bs) >= 1
    /\ \A i \in 1..Len(bs) : IsByte(bs[i]) /\ (bs[i] >= 128 <=> i < Len(bs))

\* x << k truncated to the width of x, for 0 < k < 16
Shl(x, k) ==
    [i \in 1..Len(x) |->
        ((x[i] % Pow2(16 - k)) * Pow2(k))
        + (IF i > 1 THEN x[i - 1] \div Pow2(16 - k) ELSE 0)]

\* x | b, for a b that fits the zero low bits of x
OrLow(x, b) == [i \in 1..Len(x) |-> IF i = 1 THEN x[i] + b ELSE x[i]]

\* LEB128 decoding into 5 limbs (80 bits: ten groups of 7 bits fit)
RECURSIVE LebDecode(_)
LebDecode(bs) ==
    IF bs = <<>> THEN <<0, 0, 0, 0, 0>>
    ELSE OrLow(Shl(LebDecode(Tail(bs)), 7), Head(bs) % 128)

\* x extended to 5 limbs
Ext(x) == [i \in 1..5 |-> IF i <= Len(x) THEN x[i] ELSE 0]

RECURSIVE BitLen(_)
BitLen(n) == IF n = 0 THEN 0 ELSE 1 + BitLen(n \div 2)

\* the number of significant bits of a limb value
BitsNeeded(x) ==
    IF IsZero(x) THEN 0
    ELSE LET top == CHOOSE i \in 1..Len(x) : x[i] # 0 /\ \A j \in (i + 1)..Len(x) : x[j] = 0
         IN  16 * (top - 1) + BitLen(x[top])

\* little-endian bytes read back as an unsigned / as a two's-complement value
RECURSIVE ULe(_)
ULe(bs) == IF bs = <<>> THEN 0 ELSE Head(bs) + 256 * ULe(Tail(bs))

RECURSIVE SLe(_)
SLe(bs) ==
    IF Len(bs) = 1 THEN (IF bs[1] >= 128 THEN bs[1] - 256 ELSE bs[1])
    ELSE Head(bs) + 256 * SLe(Tail(bs))

\* (x >> 8k) mod 256 of a limb value
RECURSIVE ByteOf(_, _)
ByteOf(x, k) == IF k = 0 THEN x[1] % 256 ELSE ByteOf(Shr(x, 8), k - 1)

Utf8Len(cp) == IF cp < 128 THEN 1 ELSE IF cp < 2048 THEN 2 ELSE IF cp < 65536 THEN 3 ELSE 4

\* the bytes the UTF-8 encoding of s takes, counted character by character
ByteLen(s) == Cardinality({p \in (1..Len(s)) \X (1..4) : p[2] <= Utf8Len(s[p[1]])})

\* the length of the varint at the front of bs
VarintLen(bs) == CHOOSE i \in 1..Len(bs) : bs[i] < 128 /\ \A j \in 1..(i - 1) : bs[j] >= 128

Did(op) == called /\ input.op = op

\* C5: istr of an address a below 2^14 appends one byte equal to a when
\* a < 128, and otherwise two bytes, (a & 0x7F) | 0x80 and a >> 7 with its
\* top bit clear; the bytes decode as LEB128 to a.
C5_IstrEncoding ==
    Did("istr") =>
        LET a == input.val
        IN  /\ a < 128 => bytes = <<a>>
            /\ a >= 128 =>
                /\ Len(bytes) = 2
                /\ bytes[1] = (a % 128) + 128
                /\ bytes[2] = a \div 128
                /\ bytes[2] < 128
            /\ LebWellFormed(bytes)
            /\ LebDecode(bytes) = Wide(a, 5)

C5_Witness == Did("istr") /\ input.val = 300 /\ bytes = <<172, 2>>

\* C6: leb64 of a u64 v appends 1 to 10 bytes, 7 payload bits each, least
\* significant group first, the top bit set on every byte but the last; the
\* length is max(1, ceil(bits_needed(v) / 7)) and the bytes decode to v.
C6_Leb64Encoding ==
    Did("leb64") =>
        LET v == input.val
            need == (BitsNeeded(v) + 6) \div 7
        IN  /\ Len(bytes) \in 1..10
            /\ LebWellFormed(bytes)
            /\ Len(bytes) = IF need = 0 THEN 1 ELSE need
            /\ IsZero(v) => bytes = <<0>>
            /\ BitsNeeded(v) = 64 => Len(bytes) = 10
            /\ LebDecode(bytes) = Ext(v)

C6_Witness ==
    /\ Did("leb64")
    /\ input.val = WideOnes(64, 4)
    /\ bytes = <<255, 255, 255, 255, 255, 255, 255, 255, 255, 1>>

\* C7: u8, u16, u24 and u32 append 1, 2, 3 and 4 bytes, i8, i16 and i32
\* append 1, 2 and 4; byte k is (value >> 8k) mod 256 (two's complement for
\* the signed ones), u24 dropping the top byte of its 32-bit argument.
C7_FixedWidthLittleEndian ==
    /\ Did("u8") => Len(bytes) = 1 /\ IsByte(bytes[1]) /\ ULe(bytes) = input.val
    /\ Did("u16") =>
        /\ Len(bytes) = 2
        /\ \A k \in 1..2 : IsByte(bytes[k])
        /\ ULe(bytes) = input.val
        /\ input.val = 4660 => bytes = <<52, 18>>
    /\ Did("u24") => Len(bytes) = 3 /\ \A k \in 0..2 : bytes[k + 1] = ByteOf(input.val, k)
    /\ Did("u32") => Len(bytes) = 4 /\ \A k \in 0..3 : bytes[k + 1] = ByteOf(input.val, k)
    /\ Did("i8") => Len(bytes) = 1 /\ IsByte(bytes[1]) /\ SLe(bytes) = input.val
    /\ Did("i16") => Len(bytes) = 2 /\ (\A k \in 1..2 : IsByte(bytes[k])) /\ SLe(bytes) = input.val
    /\ Did("i32") => Len(bytes) = 4 /\ (\A k \in 1..4 : IsByte(bytes[k])) /\ SLe(bytes) = input.val

C7_Witness == Did("u16") /\ input.val = 4660 /\ bytes = <<52, 18>>

\* C8: str appends the varint of the string's length in bytes and then
\* exactly that many bytes, the string's UTF-8 encoding, and nothing else.
C8_StrEncoding ==
    Did("str") =>
        LET s == input.val
            n == VarintLen(bytes)
            payload == SubSeq(bytes, n + 1, Len(bytes))
        IN  /\ LebWellFormed(SubSeq(bytes, 1, n))
            /\ LebDecode(SubSeq(bytes, 1, n)) = Wide(ByteLen(s), 5)
            /\ Len(payload) = ByteLen(s)
            /\ payload = as_bytes(s)
            /\ s = <<>> => bytes = <<0>>

C8_Witness == Did("str") /\ input.val = <<233, 8364>> /\ bytes = <<5, 195, 169, 226, 130, 172>>

\* the other addresses that agree with a in their low 8 bits
Congruent(a) == {(a % 256) + 256 * k : k \in 0..((Pow2(AddrBits) \div 256) - 1)} \ {a}

\* C10: prim appends the one byte address mod 256, so addresses that differ
\* by a multiple of 256 give the same output, where istr tells them apart.
C10_PrimTruncates ==
    Did("prim") =>
        LET a == input.val
        IN  /\ bytes = <<a % 256>>
            /\ \A b \in Congruent(a) :
                /\ prim(<<>>, b) = bytes
                /\ istr(<<>>, b) # istr(<<>>, a)

C10_Witness == Did("prim") /\ input.val = 300 /\ bytes = <<44>>

\* ------------------------------------------------------------- sessions
Holders == {c \in Ctx : fmtr[c] # <<>>}

Lost == {c \in Ctx : pc[c] = "lost"}

\* what one writer call appends, on its own
Out(call) == IF call.op = "fmt" THEN fmt(<<>>, call.val) ELSE Prim(<<>>, call)

\* the bytes of a list of calls, in call order
RecordBytes(cs) == Flatten([i \in 1..Len(cs) |-> Out(cs[i])])

\* the calls of log statement s with timestamp t, all of them
FullCalls(s, t) ==
    <<[op |-> "leb64", val |-> t], [op |-> "istr", val |-> s.addr]>> \o s.args

IsWhole(cs) == \E s \in Sites, t \in Timestamps : cs = FullCalls(s, t)

AcquireReturns(c) == pc[c] = "idle" /\ pc'[c] # "idle"

NestedReturns(c) == nested[c] = "none" /\ nested'[c] # "none"

\* what C2 asks of one step
C2_FailedAcquireStep ==
    \A c \in Ctx :
        /\ (AcquireReturns(c) /\ logger = "Acquired") =>
            /\ pc'[c] = "lost"
            /\ logger' = "Acquired"
            /\ <<sink, fmtr, calls, committed>>' = <<sink, fmtr, calls, committed>>
        /\ NestedReturns(c) =>
            /\ nested'[c] = "absent"
            /\ logger' = "Acquired"
            /\ <<sink, fmtr, calls, committed, pc>>' = <<sink, fmtr, calls, committed, pc>>
        /\ pc[c] = "lost" =>
            /\ pc'[c] \in {"lost", "idle"}
            /\ pc'[c] = "idle" =>
                <<sink, fmtr, calls, committed, logger>>' = <<sink, fmtr, calls, committed, logger>>

C3_WholeRecords ==
    /\ \A i \in 1..Len(committed) : IsWhole(committed[i])
    /\ \E cur \in {<<>>} \cup {RecordBytes(calls[c]) : c \in Holders} :
        /\ Holders # {} => \E c \in Holders : cur = RecordBytes(calls[c])
        /\ sink = Flatten([i \in 1..Len(committed) |-> RecordBytes(committed[i])]) \o cur

C3_Witness ==
    /\ Len(committed) = 2
    /\ committed[1] # committed[2]
    /\ Lost # {}
    /\ sink = RecordBytes(committed[1]) \o RecordBytes(committed[2])
    /\ sink # <<>>

\* context c releases
ReleaseReturns(c) == fmtr[c] # <<>> /\ fmtr'[c] = <<>>

\* what C4 asks of one step
C4_ReleaseStep ==
    \A c \in Ctx :
        /\ ReleaseReturns(c) => logger = "Acquired" /\ logger' = "Idle"
        /\ (AcquireReturns(c) /\ logger = "Idle") =>
            /\ pc'[c] = "ts"
            /\ logger' = "Acquired"
            /\ fmtr'[c] = <<[writer |-> SinkPtr]>>

\* C4: the holder's release takes the logger from Acquired to Idle; an
\* acquire on the Idle logger succeeds and makes it Acquired again; and a
\* logger that is Acquired becomes Idle: no session holds it for ever.
C4_ReleaseFrees ==
    /\ [][C4_ReleaseStep]_vars
    /\ (logger = "Acquired") ~> (logger = "Idle")

C4_Witness ==
    /\ Len(committed) >= 1
    /\ Holders # {}
    /\ logger = "Acquired"

\* what C9 asks of one step
C9_AppendStep ==
    /\ \A c \in Ctx :
        calls'[c] # calls[c] /\ calls'[c] # <<>> =>
            /\ Len(calls'[c]) = Len(calls[c]) + 1
            /\ sink' = sink \o Out(calls'[c][Len(calls'[c])])
    /\ (\A c \in Ctx : calls'[c] = calls[c] \/ calls'[c] = <<>>) => sink' = sink

\* what C9 asks of one state
C9_SessionOrder ==
    \A c \in Holders :
        /\ Len(sink) >= Len(RecordBytes(calls[c]))
        /\ SubSeq(sink, Len(sink) - Len(RecordBytes(calls[c])) + 1, Len(sink))
            = RecordBytes(calls[c])
        /\ \A i \in 1..Len(sink) : IsByte(sink[i])

\* C9: a writer call appends its own output to the sink and changes none of
\* the bytes before it, so a session's bytes are its calls' outputs in call
\* order; every other step leaves the sink alone.
C9_AppendOnly == [][C9_AppendStep]_vars /\ []C9_SessionOrder

C9_Witness ==
    /\ \E c \in Holders :
        calls[c] = <<[op |-> "leb64", val |-> Wide(42, 4)],
                     [op |-> "istr", val |-> 100],
                     [op |-> "u8", val |-> 7]>>
    /\ sink = <<42, 100, 7>>

====
